---- MODULE Spec2Model ----
(***************************************************************************)
(* Chunked-upload session manager of the screen-recording backend          *)
(* (src/unnamed/part_000): the token guard, the chunk and finish handlers  *)
(* and the periodic sweeper, as a state machine, with the browser's chunk  *)
(* uploader (src/unnamed/part_002) as one of its clients.                  *)
(*                                                                         *)
(* Scheduling: one Node.js event loop.  A handler runs without             *)
(* interruption from one await to the next, so every action below is one   *)
(* such segment.  The effect of the awaited filesystem call takes place at *)
(* the start of the segment that resumes after it.                         *)
(***************************************************************************)
EXTENDS Integers, Sequences, FiniteSets, TLC

(* ------------------------------ bounds --------------------------------- *)

\* Declared chunk indices range over 0..MaxIdx.
MaxIdx == 1

\* The clock runs from 0 to MaxTime.
MaxTime == 2

\* Session objects (and write streams) created in one run.
MaxSess == 2

\* Simulated restarts in one run.
MaxRestarts == 1

\* The push calls one uploader receives.
MaxPush == 3

\* createChunkUploader({ maxPending = 1 }): the default the recorder keeps.
maxPending == 1

(* ------------------------- program constants --------------------------- *)

\* Total size ceiling of one upload, in bytes.  Read from the environment;
\* a deployment with a ceiling of three bytes.
PER_UPLOAD_MAX_BYTES == 3

\* Idle time after which the sweeper removes a session; read from the
\* environment, here one unit of the clock.
INFLIGHT_TTL_MS == 1

\* Idle time after which the token sweep removes a token; read from the
\* environment, here one unit of the clock.
TOKEN_TTL_MS == 1

MinSlot == 1

MaxSlot == 6

(* ------------------------------ values --------------------------------- *)

UploadIds == {"u1", "u2"}

\* An uploadId no uploader generates: a request can carry any string, and
\* this one names the files of "u1".
AliasId == "./u1"

\* The uploadIds a request can carry, the keys of the session map.
RequestIds == UploadIds \cup {AliasId}

Tokens == {"t1", "t2"}

\* A token value that /api/unlock never issued.
UnknownTok == "tx"

\* The connections a request can arrive on.
Reqs == {1, 2}

\* The three extensions safeExt can return, in the order finish probes them.
ExtOrder == <<".webm", ".mp4", ".mov">>

Exts == {ExtOrder[i] : i \in 1..3}

\* A declared MIME type, lower-cased, as the set of the keywords it contains;
\* NoMime is a missing or empty mimeType field.
NoMime == {"<none>"}

\* The MIME types a chunk request declares: none, one of the three known
\* kinds, types that contain two of the keywords, and an unknown type.
Mimes ==
    {NoMime, {"webm"}, {"mp4"}, {"quicktime"}, {"webm", "mp4"},
     {"mp4", "quicktime"}, {"matroska"}}

NoUid == ""

NoTok == ""

NoName == [label |-> "", slot |-> 0, ts |-> -1, ext |-> ""]

VARIABLES
    now,           \* Date.now(), in units of the TTL
    activeTokens,  \* token -> issuedAt, -1 when the token is not in the map
    inFlight,      \* uploadId -> session object (index in sess), 0 when absent
    sess,          \* the session objects ever created, with their streams
    stage,         \* <<name, ext>> -> inode of the staging file, 0: none
    owner,         \* name -> the .owner file, tok = NoTok when absent
    final,         \* finalized file name -> inode, on the names in use
    inodes,        \* inode -> the chunks appended to it
    req,           \* the requests being handled, one per connection
    sweeper,       \* position of the upload sweeper's callback
    restarts,      \* simulated restarts so far
    resp,          \* the response this step sent, NoResp when it sent none
    client         \* uploadId -> the client uploader that holds it

vars == <<now, activeTokens, inFlight, sess, stage, owner, final, inodes, req,
          sweeper, restarts, resp, client>>

(* --------------------------- pure functions ---------------------------- *)

\* CODE_TO_USER and createToken: the label a token was issued for.
UserLabel(tok) ==
    IF tok = "t1" THEN "Tester1" ELSE IF tok = "t2" THEN "Tester2" ELSE ""

\* A safeExt that looks for 'mp4' before 'webm'.
safeExt_Mp4First(mime) ==
    IF mime = NoMime THEN ".webm"
    ELSE IF "mp4" \in mime THEN ".mp4"
    ELSE IF "webm" \in mime THEN ".webm"
    ELSE IF "quicktime" \in mime THEN ".mov"
    ELSE ".webm"

\* if (!mime) return '.webm'; then the includes() tests on the lower-cased
\* type, in the source's order.
safeExt(mime) ==
    IF mime = NoMime THEN ".webm"
    ELSE IF "webm" \in mime THEN ".webm"
    ELSE IF "mp4" \in mime THEN ".mp4"
    ELSE IF "quicktime" \in mime THEN ".mov"
    ELSE ".webm"

\* timestamp(): the current time to the second.
timestamp == now

\* `${userLabel || 'User'}Oppgave${slot}-${timestamp()}${ext}`
FinalName(label, slot, ext) ==
    [label |-> IF label = "" THEN "User" ELSE label,
     slot |-> slot, ts |-> timestamp, ext |-> ext]

\* A slot check that lets every number through.
SlotOk_Any(slot) == TRUE

\* Number.isInteger(slot) && slot >= 1 && slot <= 6
SlotOk(slot) == slot >= MinSlot /\ slot <= MaxSlot

RECURSIVE SumSizes(_)
SumSizes(s) == IF s = <<>> THEN 0 ELSE Head(s).size + SumSizes(Tail(s))

\* Byte length of a file.
FileSize(ino) == SumSizes(inodes[ino])

(* ------------------------------ the disk ------------------------------- *)

\* path.join(UPLOAD_DIR, name) normalises the name: a leading './' is
\* dropped, so two uploadIds can name the same files.
Base(u) == IF u = AliasId THEN "u1" ELSE u

\* path.join(UPLOAD_DIR, `${uploadId}${ext}`)
StagePath(u, ext) == <<Base(u), ext>>

\* path.join(UPLOAD_DIR, `${uploadId}.owner`)
OwnerTag(u) == Base(u)

NoOwner == [tok |-> NoTok, mtime |-> 0]

\* An inode that still has a name; an unlinked one can never be read again.
Linked(ino) ==
    \/ \E p \in DOMAIN stage : stage[p] = ino
    \/ \E n \in DOMAIN final : final[n] = ino

(* ------------------------------ requests ------------------------------- *)

IdleReq ==
    [pc |-> "idle", kind |-> "", uid |-> NoUid, tok |-> NoTok, idx |-> -1,
     slot |-> 0, size |-> 0, sid |-> 0, ext |-> "", name |-> NoName,
     status |-> 0, err |-> "", val |-> -1]

NoResp == [IdleReq EXCEPT !.pc = "none"]

Free(r) == req[r].pc = "idle"

\* res.status(code).json({error, expected | nextIndex})
Respond(rq, code, err, val) ==
    [rq EXCEPT !.pc = "done", !.status = code, !.err = err, !.val = val]

NewReq(kind, tok, uid, idx, slot, size) ==
    [IdleReq EXCEPT !.pc = "run", !.kind = kind, !.uid = uid, !.tok = tok,
                    !.idx = idx, !.slot = slot, !.size = size]

\* The handler of connection r goes on as q: it sent its response (resp holds
\* it, with the request it answers) and the connection is free again, or it
\* is suspended at q.pc.
Emit(r, q) ==
    IF q.pc = "done"
    THEN /\ req' = [req EXCEPT ![r] = IdleReq]
         /\ resp' = [q EXCEPT !.sid = 0]
    ELSE /\ req' = [req EXCEPT ![r] = q]
         /\ resp' = NoResp

\* requireUnlock's lookup: the token is in activeTokens.
Unlocked(tok) == tok \in Tokens /\ activeTokens[tok] >= 0

\* A requireUnlock that leaves issuedAt as it is.
Touch_Keep(tok) == activeTokens

\* requireUnlock's refresh of issuedAt.
Touch(tok) == [activeTokens EXCEPT ![tok] = now]

(* --------------------------- session objects --------------------------- *)

\* A session object nothing refers to any more.  Beside the fields of the
\* source's object, st, ino and wq are its stream (state, open file, queued
\* writes of the connections waiting for their callback), acked is the
\* history of the chunks it answered 200 and fins the number of its finish
\* requests that got through their rename (each is answered 200 next).
Dead ==
    [uid |-> NoUid, ext |-> "", made |-> FALSE, nextIndex |-> 0,
     userLabel |-> "", ownerTok |-> NoTok, slot |-> 0, lastTouched |-> 0,
     bytes |-> 0, st |-> "gone", ino |-> 0, wq |-> <<>>, acked |-> <<>>,
     fins |-> 0]

\* The locals of a creating request up to its await, and the session object
\* it builds after it (made = TRUE once the object literal was evaluated).
NewSession(u, ext, ino) ==
    [Dead EXCEPT !.uid = u, !.ext = ext, !.st = "open", !.ino = ino]

\* The object literal of the handler: sess = { stream, ..., bytes: 0 }.
MakeSession(s, rq) ==
    [s EXCEPT !.made = TRUE, !.nextIndex = 0, !.userLabel = UserLabel(rq.tok),
              !.ownerTok = rq.tok, !.slot = rq.slot, !.lastTouched = now,
              !.bytes = 0]

\* Session objects are garbage once neither the map, a handler nor the
\* sweeper holds them: S with those replaced by Dead.  (What a restart
\* dropped is kept for reference, st = "lost".)
Collect(S, M, Q, W) ==
    [i \in DOMAIN S |->
        IF \/ \E u \in RequestIds : M[u] = i
           \/ \E r \in Reqs : Q[r].sid = i
           \/ W.sid = i
           \/ S[i].st = "lost"
        THEN S[i] ELSE Dead]

\* S without the record of what a restart dropped for upload u.
Unlose(S, u) ==
    [i \in DOMAIN S |->
        IF S[i].st = "lost" /\ S[i].uid = u THEN Dead ELSE S[i]]

(* ------------------------- POST /api/upload/chunk ---------------------- *)

\* Basic validation: uploadId, the file part (size < 0: none) and the index.
BadRequest(u, idx, size) == u = NoUid \/ size < 0 \/ idx < 0

\* A gate that also lets an index through that was already passed.
IndexMatches_Stale(idx, s) == idx <= s.nextIndex

\* if (idx !== sess.nextIndex), negated.
IndexMatches(idx, s) == idx = s.nextIndex

\* An expected index that is one too far.
Expected_Next(s) == s.nextIndex + 1

\* The expected index an out-of-order response carries.
Expected(s) == s.nextIndex

\* The four checks against the session, in the handler's order.
ChunkVerdict(s, rq) ==
    IF rq.slot # s.slot THEN "slot"
    ELSE IF ~IndexMatches(rq.idx, s) THEN "order"
    ELSE IF s.ownerTok # rq.tok THEN "owner"
    ELSE IF s.bytes + rq.size > PER_UPLOAD_MAX_BYTES THEN "size"
    ELSE "write"

\* The checks and, when they pass, the call of stream.write, for connection
\* r and session object sid of the store S: how the handler goes on (q) and
\* the store afterwards (S).
ChunkChecks(r, rq, sid, S) ==
    LET s == S[sid]
        v == ChunkVerdict(s, rq)
        q == [rq EXCEPT !.sid = sid]
    IN  CASE v = "slot" ->
               [q |-> Respond(q, 409, "slot mismatch", -1), S |-> S]
          [] v = "order" ->
               [q |-> Respond(q, 409, "out-of-order", Expected(s)), S |-> S]
          [] v = "owner" ->
               [q |-> Respond(q, 403, "not owner", -1), S |-> S]
          [] v = "size" ->
               [q |-> Respond(q, 413, "exceeds max", -1), S |-> S]
          [] v = "write" ->
               IF s.st = "open"
               THEN [q |-> [q EXCEPT !.pc = "c_write"],
                     S |-> [S EXCEPT ![sid].wq = Append(@, r)]]
               ELSE \* write after end, or on a destroyed stream
                    [q |-> Respond(q, 500, "chunk store failed", -1), S |-> S]

\* From the arrival of the request to its first await or its response.
ChunkArrive(r, tok, u, idx, slot, size, mime) ==
    /\ Free(r)
    /\ UNCHANGED <<now, inFlight, owner, final, sweeper, restarts>>
    /\ LET rq == NewReq("chunk", tok, u, idx, slot, size) IN
       IF ~Unlocked(tok)
       THEN /\ Emit(r, Respond(rq, 403, "Locked", -1))
            /\ UNCHANGED <<activeTokens, sess, stage, inodes>>
       ELSE /\ activeTokens' = Touch(tok)
            /\ IF BadRequest(u, idx, size) \/ ~SlotOk(slot)
               THEN /\ Emit(r, Respond(rq, 400, "bad request", -1))
                    /\ UNCHANGED <<sess, stage, inodes>>
               ELSE IF inFlight[u] # 0
               THEN LET out == ChunkChecks(r, rq, inFlight[u], sess) IN
                    /\ Emit(r, out.q)
                    /\ UNCHANGED <<stage, inodes>>
                    /\ sess' = Collect(out.S, inFlight', req', sweeper')
               ELSE \* createWriteStream(filepath, {flags: 'a'}), then the
                    \* await of writeFile(ownerTag, token, {flag: 'wx'})
                    LET ext == safeExt(mime)
                        old == stage[StagePath(u, ext)]
                        ino == IF old # 0 THEN old ELSE Len(inodes) + 1
                        sid == Len(sess) + 1
                    IN  /\ Len(sess) < MaxSess
                        /\ stage' = [stage EXCEPT ![StagePath(u, ext)] = ino]
                        /\ inodes' = IF old # 0 THEN inodes
                                     ELSE Append(inodes, <<>>)
                        /\ Emit(r, [rq EXCEPT !.pc = "c_marker", !.sid = sid,
                                              !.ext = ext])
                        /\ sess' = Append(sess, NewSession(u, ext, ino))

\* writeFile with flag 'wx': creates the marker unless one exists.
WriteMarkerWx(u, tok) ==
    IF owner[OwnerTag(u)].tok = NoTok
    THEN [owner EXCEPT ![OwnerTag(u)] = [tok |-> tok, mtime |-> now]]
    ELSE owner

\* inFlight.set(uploadId, sess)
SetSession(u, sid) == [inFlight EXCEPT ![u] = sid]

\* After the marker write (its failure is ignored): build and register the
\* session object, then the checks.
ChunkMarkerDone(r) ==
    /\ req[r].pc = "c_marker"
    /\ UNCHANGED <<client, now, activeTokens, stage, final, inodes, restarts>>
    /\ LET rq == req[r]
           sid == rq.sid
           out == ChunkChecks(r, rq, sid,
                              [Unlose(sess, rq.uid) EXCEPT
                                 ![sid] = MakeSession(@, rq)])
       IN  /\ owner' = WriteMarkerWx(rq.uid, rq.tok)
           /\ inFlight' = SetSession(rq.uid, sid)
           /\ sweeper' = [sweeper EXCEPT
                            !.seen = IF inFlight[rq.uid] = 0
                                     THEN @ \ {rq.uid} ELSE @]
           /\ Emit(r, out.q)
           /\ sess' = Collect(out.S, inFlight', req', sweeper')

\* sess.nextIndex += 1; sess.bytes += size; sess.lastTouched = Date.now()
Advance(s, size) ==
    [s EXCEPT !.nextIndex = @ + 1, !.bytes = @ + size, !.lastTouched = now]

\* The stream's finish: an ended stream with nothing left to write.
Settle(s) ==
    IF s.st = "ending" /\ s.wq = <<>> THEN [s EXCEPT !.st = "finished"] ELSE s

\* The bytes of one chunk as they lie in a file.
Payload(rq) == [tok |-> rq.tok, idx |-> rq.idx, size |-> rq.size]

\* A write that reports success and stores nothing.
WriteChunk_Lost(content, rq) == content

\* stream.write(req.file.buffer): the chunk goes to the end of the file.
WriteChunk(content, rq) == Append(content, Payload(rq))

\* The write callback.  ok = FALSE is a failed write, which destroys the
\* stream; the writes queued behind it fail too.
ChunkWriteDone(r, ok) ==
    /\ req[r].pc = "c_write"
    /\ UNCHANGED <<client, now, activeTokens, inFlight, stage, owner, final,
                   sweeper, restarts>>
    /\ LET rq == req[r]
           sid == rq.sid
           s == sess[sid]
       IN  /\ Head(s.wq) = r
           /\ ok => s.st # "errored"
           /\ IF ok
              THEN /\ inodes' = IF Linked(s.ino)
                                THEN [inodes EXCEPT ![s.ino] =
                                        WriteChunk(@, rq)]
                                ELSE inodes
                   /\ Emit(r, Respond(rq, 200, "", s.nextIndex + 1))
                   /\ sess' = Collect(
                        [sess EXCEPT ![sid] =
                           [Advance(s, rq.size) EXCEPT
                              !.wq = Tail(s.wq),
                              !.acked = Append(@, Payload(rq))]],
                        inFlight', req', sweeper')
              ELSE /\ inodes' = inodes
                   /\ Emit(r, Respond(rq, 500, "chunk store failed", -1))
                   /\ sess' = Collect(
                        [sess EXCEPT ![sid].wq = Tail(@),
                                     ![sid].st = "errored"],
                        inFlight', req', sweeper')

(* ----------------------------- disk calls ------------------------------ *)

\* fsp.unlink of a staging file (a missing file is the caller's concern).
UnlinkStage(path) == [stage EXCEPT ![path] = 0]

\* The inodes after the name of inode ino was removed or overwritten: its
\* bytes are gone for every later reader.
Forget(ino) == IF ino = 0 THEN inodes ELSE [inodes EXCEPT ![ino] = <<>>]

\* fsp.rename(staging, final): the final name now holds the staging inode.
RenameTo(name, ino) ==
    [n \in (DOMAIN final) \cup {name} |-> IF n = name THEN ino ELSE final[n]]

\* The inode a rename onto name replaces, 0 when the name is new.
Replaced(name) == IF name \in DOMAIN final THEN final[name] ELSE 0

\* fsp.unlink of the .owner file, errors swallowed.
UnlinkOwner(u) == [owner EXCEPT ![OwnerTag(u)] = NoOwner]

(* ------------------------ POST /api/upload/finish ---------------------- *)

\* The first staging file the probe over '.webm', '.mp4', '.mov' finds.
ProbeFrom(u, i) ==
    LET hit == {j \in i..3 : stage[StagePath(u, ExtOrder[j])] # 0}
    IN  IF hit = {} THEN ""
        ELSE ExtOrder[CHOOSE j \in hit : \A k \in hit : j <= k]

\* A probe that takes the first extension whether or not the file exists.
Probe_First(u) == ExtOrder[1]

Probe(u) == ProbeFrom(u, 1)

\* An owner check that lets every token through.
OwnsSession_Any(s, tok) == TRUE

\* if (sess.ownerTok !== req.token), negated.
OwnsSession(s, tok) == s.ownerTok = tok

\* From the arrival of the request to its first await or its response.
FinishArrive(r, tok, u, slot) ==
    /\ Free(r)
    /\ UNCHANGED <<now, inFlight, stage, owner, final, inodes, sweeper,
                   restarts>>
    /\ LET rq == NewReq("finish", tok, u, -1, slot, 0) IN
       IF ~Unlocked(tok)
       THEN /\ Emit(r, Respond(rq, 403, "Locked", -1))
            /\ UNCHANGED <<activeTokens, sess>>
       ELSE /\ activeTokens' = Touch(tok)
            /\ IF u = NoUid \/ ~SlotOk(slot)
               THEN /\ Emit(r, Respond(rq, 400, "bad request", -1))
                    /\ sess' = sess
               ELSE IF inFlight[u] = 0
               THEN \* fallback: existsSync(ownerTag), then await readFile
                    /\ IF owner[OwnerTag(u)].tok = NoTok
                       THEN Emit(r, Respond(rq, 404, "unknown uploadId", -1))
                       ELSE Emit(r, [rq EXCEPT !.pc = "f_read"])
                    /\ sess' = sess
               ELSE LET sid == inFlight[u]
                        s == sess[sid]
                        q == [rq EXCEPT !.sid = sid]
                    IN  IF ~OwnsSession(s, tok)
                        THEN /\ Emit(r, Respond(q, 403, "not owner", -1))
                             /\ sess' = sess
                        ELSE IF s.st \in {"open", "ending"}
                        THEN \* stream.end(cb): cb waits for the finish
                             /\ Emit(r, [q EXCEPT !.pc = "f_end"])
                             /\ sess' = [sess EXCEPT ![sid].st = "ending"]
                        ELSE \* end() of a finished or destroyed stream
                             /\ Emit(r, Respond(q, 500, "finalize failed", -1))
                             /\ sess' = sess

\* Fallback, after readFile(ownerTag): owner check, probe, then await rename.
FinishRead(r, ok) ==
    /\ req[r].pc = "f_read"
    /\ UNCHANGED <<client, now, activeTokens, inFlight, sess, stage, owner,
                   final, inodes, sweeper, restarts>>
    /\ LET rq == req[r]
           ext == Probe(rq.uid)
       IN  Emit(r, IF ~ok \/ owner[OwnerTag(rq.uid)].tok = NoTok
                   THEN Respond(rq, 500, "finalize failed", -1)
                   ELSE IF owner[OwnerTag(rq.uid)].tok # rq.tok
                   THEN Respond(rq, 403, "not owner", -1)
                   ELSE IF ext = ""
                   THEN Respond(rq, 404, "unknown uploadId", -1)
                   ELSE [rq EXCEPT
                           !.pc = "f_renameFb", !.ext = ext,
                           !.name = FinalName(UserLabel(rq.tok), rq.slot, ext)])

\* Fallback, after rename(fp, finalPath): then await unlink(ownerTag).
FinishRenameFb(r, ok) ==
    /\ req[r].pc = "f_renameFb"
    /\ UNCHANGED <<client, now, activeTokens, inFlight, sess, owner, sweeper,
                   restarts>>
    /\ LET rq == req[r]
           path == StagePath(rq.uid, rq.ext)
           ino == stage[path]
       IN  IF ~ok \/ ino = 0
           THEN /\ Emit(r, Respond(rq, 500, "finalize failed", -1))
                /\ UNCHANGED <<stage, final, inodes>>
           ELSE /\ inodes' = Forget(Replaced(rq.name))
                /\ final' = RenameTo(rq.name, ino)
                /\ stage' = UnlinkStage(path)
                /\ Emit(r, [rq EXCEPT !.pc = "f_unlinkFb"])

\* Fallback, after unlink(ownerTag): the 200 response.
FinishUnlinkFb(r) ==
    /\ req[r].pc = "f_unlinkFb"
    /\ UNCHANGED <<client, now, activeTokens, inFlight, stage, final, inodes,
                   sweeper, restarts>>
    /\ sess' = Unlose(sess, req[r].uid)
    /\ owner' = UnlinkOwner(req[r].uid)
    /\ Emit(r, Respond(req[r], 200, "", -1))

\* Normal path, the callback of stream.end: the final name, then await rename.
FinishEnd(r) ==
    /\ req[r].pc = "f_end"
    /\ UNCHANGED <<client, now, activeTokens, inFlight, stage, owner, final,
                   inodes, sweeper, restarts>>
    /\ LET rq == req[r]
           s == sess[rq.sid]
       IN  /\ s.wq = <<>>
           /\ IF s.st = "errored"
              THEN /\ Emit(r, Respond(rq, 500, "finalize failed", -1))
                   /\ sess' = Collect(sess, inFlight', req', sweeper')
              ELSE /\ Emit(r, [rq EXCEPT
                                  !.pc = "f_rename", !.ext = s.ext,
                                  !.name = FinalName(s.userLabel, rq.slot,
                                                     s.ext)])
                   /\ sess' = [sess EXCEPT ![rq.sid].st = "finished"]

\* inFlight.delete(uploadId)
DeleteSession(u) == [inFlight EXCEPT ![u] = 0]

\* Normal path, after rename(sess.filepath, finalPath): inFlight.delete, then
\* await unlink(ownerTag).
FinishRename(r, ok) ==
    /\ req[r].pc = "f_rename"
    /\ UNCHANGED <<client, now, activeTokens, owner, sweeper, restarts>>
    /\ LET rq == req[r]
           s == sess[rq.sid]
           path == StagePath(s.uid, s.ext)
           ino == stage[path]
       IN  IF ~ok \/ ino = 0
           THEN /\ Emit(r, Respond(rq, 500, "finalize failed", -1))
                /\ UNCHANGED <<stage, final, inodes, inFlight>>
                /\ sess' = Collect(sess, inFlight', req', sweeper')
           ELSE /\ inodes' = Forget(Replaced(rq.name))
                /\ final' = RenameTo(rq.name, ino)
                /\ stage' = UnlinkStage(path)
                /\ inFlight' = DeleteSession(rq.uid)
                /\ Emit(r, [rq EXCEPT !.pc = "f_unlink", !.sid = 0])
                /\ sess' = Collect([sess EXCEPT ![rq.sid].fins = @ + 1],
                                   inFlight', req', sweeper')

\* Normal path, after unlink(ownerTag): the 200 response.
FinishUnlink(r) ==
    /\ req[r].pc = "f_unlink"
    /\ UNCHANGED <<client, now, activeTokens, inFlight, sess, stage, final,
                   inodes, sweeper, restarts>>
    /\ owner' = UnlinkOwner(req[r].uid)
    /\ Emit(r, Respond(req[r], 200, "", -1))

(* ------------------------- the upload sweeper -------------------------- *)

IdleSweeper ==
    [pc |-> "idle", t0 |-> 0, cur |-> NoUid, sid |-> 0, seen |-> {},
     names |-> {}, threw |-> FALSE]

\* A sweeper that finds no session idle.
Stale_Never(s, t0) == FALSE

\* now - (s.lastTouched || 0) > INFLIGHT_TTL_MS
Stale(s, t0) == t0 - s.lastTouched > INFLIGHT_TTL_MS

\* s.stream.end() without a callback.
EndStream(s) == IF s.st = "open" THEN [s EXCEPT !.st = "ending"] ELSE s

\* The stale sessions the for-of loop over inFlight has yet to reach.
StaleLeft(sw) ==
    {u \in RequestIds : /\ inFlight[u] # 0
                       /\ u \notin sw.seen
                       /\ Stale(sess[inFlight[u]], sw.t0)}

\* The for-of loop up to its next await, for a sweeper at sw: the stream of
\* stale session u is ended and the unlink of its staging file awaited.
SweepSession(sw, u) ==
    /\ sweeper' = [sw EXCEPT !.pc = "unlinkFile", !.cur = u,
                             !.sid = inFlight[u], !.seen = @ \cup {u}]
    /\ sess' = [sess EXCEPT ![inFlight[u]] = EndStream(@)]

\* The loop is through: the readdir is awaited.
SweepSessionsDone(sw) ==
    /\ sweeper' = [sw EXCEPT !.pc = "readdir", !.cur = NoUid, !.sid = 0]
    /\ sess' = sess

\* The timer fires: const now = Date.now(), then the loop.
SweepStart ==
    /\ sweeper.pc = "idle"
    /\ UNCHANGED <<client, now, activeTokens, inFlight, stage, owner, final,
                   inodes, req, restarts>>
    /\ resp' = NoResp
    /\ LET sw == [IdleSweeper EXCEPT !.t0 = now] IN
       IF StaleLeft(sw) = {}
       THEN SweepSessionsDone(sw)
       ELSE \E u \in StaleLeft(sw) : SweepSession(sw, u)

\* After unlink(s.filepath): inFlight.delete(id), then await unlink(marker).
SweepUnlinkFile ==
    /\ sweeper.pc = "unlinkFile"
    /\ UNCHANGED <<client, now, activeTokens, owner, final, req, restarts>>
    /\ resp' = NoResp
    /\ LET s == sess[sweeper.sid]
           path == StagePath(s.uid, s.ext)
       IN  /\ inodes' = Forget(stage[path])
           /\ stage' = UnlinkStage(path)
           /\ inFlight' = DeleteSession(sweeper.cur)
           /\ sweeper' = [sweeper EXCEPT !.pc = "unlinkOwner", !.sid = 0]
           /\ sess' = Collect([sess EXCEPT ![sweeper.sid] = Settle(@)],
                              inFlight', req', sweeper')

\* After unlink of the marker: the loop goes on.
SweepUnlinkOwner ==
    /\ sweeper.pc = "unlinkOwner"
    /\ UNCHANGED <<client, now, activeTokens, inFlight, stage, final, inodes,
                   req, restarts>>
    /\ resp' = NoResp
    /\ owner' = UnlinkOwner(sweeper.cur)
    /\ IF StaleLeft(sweeper) = {}
       THEN SweepSessionsDone(sweeper)
       ELSE \E u \in StaleLeft(sweeper) : SweepSession(sweeper, u)

\* The loop over the directory listing up to its next await: one more
\* '.owner' name whose stat is awaited, or the end of the callback.
SweepMarkers(sw) ==
    IF sw.names = {}
    THEN sweeper' = IdleSweeper
    ELSE \E u \in sw.names :
            sweeper' = [sw EXCEPT !.pc = "stat", !.cur = u, !.names = @ \ {u}]

\* After readdir(UPLOAD_DIR): the names ending in '.owner'.
SweepReaddir ==
    /\ sweeper.pc = "readdir"
    /\ UNCHANGED <<client, now, activeTokens, inFlight, sess, stage, owner,
                   final, inodes, req, restarts>>
    /\ resp' = NoResp
    /\ SweepMarkers([sweeper EXCEPT
                       !.names = {u \in UploadIds : owner[u].tok # NoTok}])

\* now - st.mtimeMs > INFLIGHT_TTL_MS
OldMarker(m, t0) == t0 - m.mtime > INFLIGHT_TTL_MS

\* After stat(fp): a marker that is gone makes stat throw, which ends the
\* callback with a rejected promise; an old marker's unlink is awaited.
SweepStat ==
    /\ sweeper.pc = "stat"
    /\ UNCHANGED <<client, now, activeTokens, inFlight, sess, stage, owner,
                   final, inodes, req, restarts>>
    /\ resp' = NoResp
    /\ LET m == owner[sweeper.cur] IN
       IF m.tok = NoTok
       THEN sweeper' = [IdleSweeper EXCEPT !.threw = TRUE]
       ELSE IF OldMarker(m, sweeper.t0)
       THEN sweeper' = [sweeper EXCEPT !.pc = "unlinkOld"]
       ELSE SweepMarkers(sweeper)

\* After unlink of an old marker.
SweepUnlinkOld ==
    /\ sweeper.pc = "unlinkOld"
    /\ UNCHANGED <<client, now, activeTokens, inFlight, sess, stage, final,
                   inodes, req, restarts>>
    /\ resp' = NoResp
    /\ owner' = UnlinkOwner(sweeper.cur)
    /\ SweepMarkers(sweeper)

(* ------------------------- the client uploader ------------------------- *)

\* createChunkUploader after start(): nextIndex is Len(sent), sent the sizes
\* of the chunks pushed so far, done whether finalize was called.
NewUploader == [sent |-> <<>>, done |-> FALSE]

\* What one uploader keeps for all its requests: the token in the browser's
\* storage, the slot it was created with and the recorder's MIME type.
TokOf(u) == IF u = "u1" THEN "t1" ELSE "t2"

SlotOf(u) == IF u = "u1" THEN 1 ELSE 2

MimeOf(u) == IF u = "u1" THEN {"webm"} ELSE {"mp4"}

RECURSIVE SumSeq(_)
SumSeq(s) == IF s = <<>> THEN 0 ELSE Head(s) + SumSeq(Tail(s))

\* push(blob, mimeType) with no request pending: myIndex = nextIndex++, then
\* sendChunk, whose request arrives on connection r.
Push(r, u, size) ==
    /\ ~client[u].done
    /\ Len(client[u].sent) <= MaxIdx
    /\ client' = [client EXCEPT ![u].sent = Append(@, size)]
    /\ ChunkArrive(r, TokOf(u), u, Len(client[u].sent), SlotOf(u), size,
                   MimeOf(u))

\* finalize(): after the flush, the finish request.
Finalize(r, u) ==
    /\ ~client[u].done
    /\ client' = [client EXCEPT ![u].done = TRUE]
    /\ FinishArrive(r, TokOf(u), u, SlotOf(u))

(* ------------------ the client uploader, call by call ------------------ *)

\* createChunkUploader after start(), with what its closures hold: nextIndex
\* and pending, the push calls in the order they were made (pc: "poll" in
\* the backpressure loop, "send" awaiting sendChunk, "done" or "failed"; idx
\* the index handed to sendChunk, -1 before), finalize's position ("idle",
\* "flush" in the flush loop, "finish" awaiting the finish request, "done")
\* and wire, the requests handed to fetch so far, in order (call 0: finish).
StartedUploader ==
    [nextIndex |-> 0, pending |-> 0, calls |-> <<>>, fin |-> "idle",
     wire |-> <<>>]

\* A loop test that lets every call through.
Backpressure_Off(c) == FALSE

\* while (pending >= maxPending)
Backpressure(c) == c.pending >= maxPending

\* sendChunk up to its await: with a token in sessionStorage the request is
\* handed to fetch; without one getTokenHeaderOrThrow throws.
SendChunk(c, k, idx, tok) ==
    IF tok
    THEN [c EXCEPT !.wire = Append(@, [call |-> k, idx |-> idx]),
                   !.calls[k].pc = "send"]
    ELSE [c EXCEPT !.calls[k].pc = "failed", !.pending = @ - 1]

\* const myIndex = nextIndex++; pending++; then sendChunk(blob, mime, myIndex)
Take(c, k, tok) ==
    SendChunk([c EXCEPT !.nextIndex = @ + 1, !.pending = @ + 1,
                        !.calls[k].idx = c.nextIndex],
              k, c.nextIndex, tok)

\* push(), from the loop test on, for call k of uploader c.
PushFrom(c, k, tok) ==
    IF Backpressure(c) THEN [c EXCEPT !.calls[k].pc = "poll"]
    ELSE Take(c, k, tok)

\* The recorder calls push(blob, mimeType): one more call, run to its first
\* await.  No push is made once finalize was called.
UpPush(u, tok) ==
    /\ client[u].fin = "idle"
    /\ Len(client[u].calls) < MaxPush
    /\ LET k == Len(client[u].calls) + 1
           c == [client[u] EXCEPT !.calls = Append(@, [pc |-> "run",
                                                       idx |-> -1])]
       IN  client' = [client EXCEPT ![u] = PushFrom(c, k, tok)]
    /\ UNCHANGED <<now, activeTokens, inFlight, sess, stage, owner, final,
                   inodes, req, sweeper, restarts, resp>>

\* The 200 ms timer of call k's backpressure loop fires and the loop test
\* lets the call through.
UpPoll(u, k, tok) ==
    /\ k \in DOMAIN client[u].calls
    /\ client[u].calls[k].pc = "poll"
    /\ ~Backpressure(client[u])
    /\ client' = [client EXCEPT ![u] = Take(@, k, tok)]
    /\ UNCHANGED <<now, activeTokens, inFlight, sess, stage, owner, final,
                   inodes, req, sweeper, restarts, resp>>

\* The fetch of call k's chunk request settles (ok: a 2xx response), then
\* finally { pending--; }.
UpAnswer(u, k, ok) ==
    /\ k \in DOMAIN client[u].calls
    /\ client[u].calls[k].pc = "send"
    /\ client' = [client EXCEPT
                    ![u].calls[k].pc = IF ok THEN "done" ELSE "failed",
                    ![u].pending = @ - 1]
    /\ UNCHANGED <<now, activeTokens, inFlight, sess, stage, owner, final,
                   inodes, req, sweeper, restarts, resp>>

\* flush() and what follows it in finalize: while (pending > 0) wait 150 ms,
\* then the finish request is handed to fetch, unless the token is missing
\* and getTokenHeaderOrThrow throws.
FlushFrom(c, tok) ==
    IF c.pending > 0 THEN [c EXCEPT !.fin = "flush"]
    ELSE IF tok
    THEN [c EXCEPT !.fin = "finish",
                   !.wire = Append(@, [call |-> 0, idx |-> -1])]
    ELSE [c EXCEPT !.fin = "done"]

\* finalize(durationMs) is called, run to its first await.
UpFinalize(u, tok) ==
    /\ client[u].fin = "idle"
    /\ client' = [client EXCEPT ![u] = FlushFrom(@, tok)]
    /\ UNCHANGED <<now, activeTokens, inFlight, sess, stage, owner, final,
                   inodes, req, sweeper, restarts, resp>>

\* The 150 ms timer of the flush loop fires and finds pending = 0.
UpFlush(u, tok) ==
    /\ client[u].fin = "flush"
    /\ client[u].pending = 0
    /\ client' = [client EXCEPT ![u] = FlushFrom(@, tok)]
    /\ UNCHANGED <<now, activeTokens, inFlight, sess, stage, owner, final,
                   inodes, req, sweeper, restarts, resp>>

\* The fetch of the finish request settles.
UpFinished(u) ==
    /\ client[u].fin = "finish"
    /\ client' = [client EXCEPT ![u].fin = "done"]
    /\ UNCHANGED <<now, activeTokens, inFlight, sess, stage, owner, final,
                   inodes, req, sweeper, restarts, resp>>

(* ------------------------- clock and restart --------------------------- *)

Tick ==
    /\ now < MaxTime
    /\ now' = now + 1
    /\ resp' = NoResp
    /\ UNCHANGED <<client, activeTokens, inFlight, sess, stage, owner, final,
                   inodes, req, sweeper, restarts>>

\* sess.issuedAt < cutoff, with cutoff = t0 - TOKEN_TTL_MS
TokenExpired(issuedAt, t0) == issuedAt < t0 - TOKEN_TTL_MS

\* The token sweep's timer fires: every token in the map whose issuedAt lies
\* before the cutoff is deleted.
TokenSweep ==
    /\ activeTokens' = [t \in Tokens |->
                          IF /\ activeTokens[t] >= 0
                             /\ TokenExpired(activeTokens[t], now)
                          THEN -1 ELSE activeTokens[t]]
    /\ resp' = NoResp
    /\ UNCHANGED <<client, now, inFlight, sess, stage, owner, final, inodes,
                   req, sweeper, restarts>>

\* A simulated restart: the session map is a new Map() and the streams, the
\* handlers in progress and the running sweep are gone; the disk and the
\* tokens stay.
DropSessions ==
    /\ restarts < MaxRestarts
    /\ restarts' = restarts + 1
    /\ inFlight' = [u \in RequestIds |-> 0]
    /\ sess' = [i \in DOMAIN sess |->
                  IF \E u \in RequestIds : inFlight[u] = i
                  THEN [sess[i] EXCEPT !.st = "lost", !.wq = <<>>,
                                       !.made = FALSE]
                  ELSE Dead]
    /\ req' = [r \in Reqs |-> IdleReq]
    /\ sweeper' = IdleSweeper
    /\ resp' = NoResp
    /\ UNCHANGED <<client, now, activeTokens, stage, owner, final, inodes>>

(* --------------------------- specifications ---------------------------- *)

\* The server after start-up, both tokens issued by /api/unlock.
Init ==
    /\ now = 0
    /\ activeTokens = [t \in Tokens |-> 0]
    /\ inFlight = [u \in RequestIds |-> 0]
    /\ sess = <<>>
    /\ stage = [p \in UploadIds \X Exts |-> 0]
    /\ owner = [u \in UploadIds |-> NoOwner]
    /\ final = <<>>
    /\ inodes = <<>>
    /\ req = [r \in Reqs |-> IdleReq]
    /\ sweeper = IdleSweeper
    /\ restarts = 0
    /\ resp = NoResp
    /\ client = [u \in UploadIds |-> NewUploader]

\* The response leaves the server.
Deliver ==
    /\ resp # NoResp
    /\ resp' = NoResp
    /\ UNCHANGED <<client, now, activeTokens, inFlight, sess, stage, owner,
                   final, inodes, req, sweeper, restarts>>

\* A new request takes the first free connection.
Conn(r) == Free(r) /\ \A q \in Reqs : Free(q) => q >= r

\* No response is waiting to leave.
Ready == resp = NoResp

\* Two connections, one upload: every interleaving of the chunk and finish
\* requests of one token, without the sweeper.
NextRace ==
    \/ \E r \in Reqs, idx \in 0..MaxIdx, slot \in {1, 2} :
          /\ Ready /\ Conn(r) /\ UNCHANGED client
          /\ ChunkArrive(r, "t1", "u1", idx, slot, 1, {"webm"})
    \/ \E r \in Reqs : Ready /\ ChunkMarkerDone(r)
    \/ \E r \in Reqs : Ready /\ ChunkWriteDone(r, TRUE)
    \/ \E r \in Reqs :
          /\ Ready /\ Conn(r) /\ UNCHANGED client
          /\ FinishArrive(r, "t1", "u1", 1)
    \/ \E r \in Reqs : Ready /\ FinishEnd(r)
    \/ \E r \in Reqs : Ready /\ FinishRename(r, TRUE)
    \/ \E r \in Reqs : Ready /\ FinishUnlink(r)
    \/ \E r \in Reqs : Ready /\ FinishRead(r, TRUE)
    \/ Deliver

SpecRace == Init /\ [][NextRace]_vars

\* One uploader at a time, each request sent after the previous response:
\* chunks pushed in order, then finalize; no sweeper, no restart.
NextSeq ==
    \/ \E u \in UploadIds, size \in 1..2 : Ready /\ Conn(1) /\ Push(1, u, size)
    \/ Ready /\ ChunkMarkerDone(1)
    \/ Ready /\ ChunkWriteDone(1, TRUE)
    \/ \E u \in UploadIds : Ready /\ Conn(1) /\ Finalize(1, u)
    \/ Ready /\ FinishEnd(1)
    \/ Ready /\ FinishRename(1, TRUE)
    \/ Ready /\ FinishUnlink(1)
    \/ Deliver

SpecSeq == Init /\ [][NextSeq]_vars

\* One connection and restarts: the requests of both tokens for one upload,
\* whose session map a restart drops while the disk stays.
NextRestart ==
    \/ \E tok \in Tokens, idx \in 0..MaxIdx :
          /\ Ready /\ Conn(1) /\ UNCHANGED client
          /\ ChunkArrive(1, tok, "u2", idx, 1, 1, {"mp4"})
    \/ Ready /\ ChunkMarkerDone(1)
    \/ Ready /\ ChunkWriteDone(1, TRUE)
    \/ \E tok \in Tokens :
          /\ Ready /\ Conn(1) /\ UNCHANGED client
          /\ FinishArrive(1, tok, "u2", 1)
    \/ Ready /\ FinishEnd(1)
    \/ Ready /\ FinishRename(1, TRUE)
    \/ Ready /\ FinishUnlink(1)
    \/ Ready /\ FinishRead(1, TRUE)
    \/ Ready /\ FinishRenameFb(1, TRUE)
    \/ Ready /\ FinishUnlinkFb(1)
    \/ Ready /\ DropSessions
    \/ Deliver

SpecRestart == Init /\ [][NextRestart]_vars

\* One connection, the clock and the sweeper: the requests of one token for
\* one upload interleaved with the sweeps.
NextSweep ==
    \/ \E idx \in 0..MaxIdx :
          /\ Ready /\ Conn(1) /\ UNCHANGED client
          /\ ChunkArrive(1, "t1", "u1", idx, 1, 1, {"webm"})
    \/ Ready /\ ChunkMarkerDone(1)
    \/ Ready /\ ChunkWriteDone(1, TRUE)
    \/ /\ Ready /\ Conn(1) /\ UNCHANGED client
       /\ FinishArrive(1, "t1", "u1", 1)
    \/ Ready /\ FinishEnd(1)
    \/ Ready /\ FinishRename(1, TRUE)
    \/ Ready /\ FinishUnlink(1)
    \/ Ready /\ FinishRead(1, TRUE)
    \/ Ready /\ SweepStart
    \/ Ready /\ SweepUnlinkFile
    \/ Ready /\ SweepUnlinkOwner
    \/ Ready /\ SweepReaddir
    \/ Ready /\ SweepStat
    \/ Ready /\ SweepUnlinkOld
    \/ Ready /\ Tick
    \/ Deliver

SpecSweep == Init /\ [][NextSweep]_vars

\* One connection, two uploadIds that path.join maps to the same file names:
\* token t1 uploads "u1", token t2 uploads "./u1", each request sent after
\* the previous response.
NextAlias ==
    \/ \E u \in {"u1", AliasId}, idx \in 0..MaxIdx :
          /\ Ready /\ Conn(1) /\ UNCHANGED client
          /\ ChunkArrive(1, TokOf(u), u, idx, 1, 1, {"webm"})
    \/ Ready /\ ChunkMarkerDone(1)
    \/ Ready /\ ChunkWriteDone(1, TRUE)
    \/ \E u \in {"u1", AliasId} :
          /\ Ready /\ Conn(1) /\ UNCHANGED client
          /\ FinishArrive(1, TokOf(u), u, 1)
    \/ Ready /\ FinishEnd(1)
    \/ Ready /\ FinishRename(1, TRUE)
    \/ Ready /\ FinishUnlink(1)
    \/ Ready /\ FinishRead(1, TRUE)
    \/ Deliver

SpecAlias == Init /\ [][NextAlias]_vars

\* Two connections, one upload, chunks of one or two bytes: the chunk
\* requests of one token in every interleaving, up to the size ceiling.
NextCeiling ==
    \/ \E r \in Reqs, idx \in 0..MaxIdx, size \in 1..2 :
          /\ Ready /\ Conn(r) /\ UNCHANGED client
          /\ ChunkArrive(r, "t1", "u1", idx, 1, size, {"webm"})
    \/ \E r \in Reqs : Ready /\ ChunkMarkerDone(r)
    \/ \E r \in Reqs : Ready /\ ChunkWriteDone(r, TRUE)
    \/ Deliver

SpecCeiling == Init /\ [][NextCeiling]_vars

\* One connection, the clock and the token sweep: requests for one upload
\* that carry the issued token t1, no token or a token never issued.
NextToken ==
    \/ \E tok \in {"t1", NoTok, UnknownTok}, idx \in 0..MaxIdx :
          /\ Ready /\ Conn(1) /\ UNCHANGED client
          /\ ChunkArrive(1, tok, "u1", idx, 1, 1, {"webm"})
    \/ Ready /\ ChunkMarkerDone(1)
    \/ Ready /\ ChunkWriteDone(1, TRUE)
    \/ \E tok \in {"t1", NoTok, UnknownTok} :
          /\ Ready /\ Conn(1) /\ UNCHANGED client
          /\ FinishArrive(1, tok, "u1", 1)
    \/ Ready /\ FinishEnd(1)
    \/ Ready /\ FinishRename(1, TRUE)
    \/ Ready /\ FinishUnlink(1)
    \/ Ready /\ Tick
    \/ Ready /\ TokenSweep
    \/ Deliver

SpecToken == Init /\ [][NextToken]_vars

\* One connection, chunk requests with well-formed and malformed fields:
\* with and without a token, an uploadId, an index, a file part and a MIME
\* type, and with slots inside and outside the range.
NextValidate ==
    \/ \E tok \in {"t1", NoTok}, u \in {"u1", NoUid}, idx \in -1..MaxIdx,
          slot \in {0, MinSlot, MaxSlot, MaxSlot + 1}, size \in {-1, 1},
          mime \in {NoMime, {"mp4"}} :
          /\ Ready /\ Conn(1) /\ UNCHANGED client
          /\ ChunkArrive(1, tok, u, idx, slot, size, mime)
    \/ Ready /\ ChunkMarkerDone(1)
    \/ Ready /\ ChunkWriteDone(1, TRUE)
    \/ Deliver

SpecValidate == Init /\ [][NextValidate]_vars

\* One connection, one upload of one token, restarts, and renames that can
\* fail: the finish requests on the normal and on the recovery path, each
\* request sent after the previous response.
NextFail ==
    \/ \E idx \in 0..MaxIdx :
          /\ Ready /\ Conn(1) /\ UNCHANGED client
          /\ ChunkArrive(1, "t1", "u1", idx, 1, 1, {"webm"})
    \/ Ready /\ ChunkMarkerDone(1)
    \/ Ready /\ ChunkWriteDone(1, TRUE)
    \/ /\ Ready /\ Conn(1) /\ UNCHANGED client
       /\ FinishArrive(1, "t1", "u1", 1)
    \/ Ready /\ FinishEnd(1)
    \/ \E ok \in BOOLEAN : Ready /\ FinishRename(1, ok)
    \/ Ready /\ FinishUnlink(1)
    \/ Ready /\ FinishRead(1, TRUE)
    \/ \E ok \in BOOLEAN : Ready /\ FinishRenameFb(1, ok)
    \/ Ready /\ FinishUnlinkFb(1)
    \/ Ready /\ DropSessions
    \/ Deliver

SpecFail == Init /\ [][NextFail]_vars

\* One connection, the clock, and two uploads of one token for the same
\* slot and MIME type, each request sent after the previous response.
NextTwin ==
    \/ \E u \in UploadIds, idx \in 0..MaxIdx :
          /\ Ready /\ Conn(1) /\ UNCHANGED client
          /\ ChunkArrive(1, "t1", u, idx, 1, 1, {"webm"})
    \/ Ready /\ ChunkMarkerDone(1)
    \/ Ready /\ ChunkWriteDone(1, TRUE)
    \/ \E u \in UploadIds :
          /\ Ready /\ Conn(1) /\ UNCHANGED client
          /\ FinishArrive(1, "t1", u, 1)
    \/ Ready /\ FinishEnd(1)
    \/ Ready /\ FinishRename(1, TRUE)
    \/ Ready /\ FinishUnlink(1)
    \/ Ready /\ Tick
    \/ Deliver

SpecTwin == Init /\ [][NextTwin]_vars

\* One connection, one upload of one token whose chunk requests declare any
\* MIME type, a restart, and finish on the normal and on the recovery path.
NextMime ==
    \/ \E idx \in 0..MaxIdx, mime \in Mimes :
          /\ Ready /\ Conn(1) /\ UNCHANGED client
          /\ ChunkArrive(1, "t1", "u1", idx, 1, 1, mime)
    \/ Ready /\ ChunkMarkerDone(1)
    \/ Ready /\ ChunkWriteDone(1, TRUE)
    \/ /\ Ready /\ Conn(1) /\ UNCHANGED client
       /\ FinishArrive(1, "t1", "u1", 1)
    \/ Ready /\ FinishEnd(1)
    \/ Ready /\ FinishRename(1, TRUE)
    \/ Ready /\ FinishUnlink(1)
    \/ Ready /\ FinishRead(1, TRUE)
    \/ Ready /\ FinishRenameFb(1, TRUE)
    \/ Ready /\ FinishUnlinkFb(1)
    \/ Ready /\ DropSessions
    \/ Deliver

SpecMime == Init /\ [][NextMime]_vars

\* The browser side alone: the server as in Init, every uploader started.
InitUploader ==
    /\ now = 0
    /\ activeTokens = [t \in Tokens |-> 0]
    /\ inFlight = [u \in RequestIds |-> 0]
    /\ sess = <<>>
    /\ stage = [p \in UploadIds \X Exts |-> 0]
    /\ owner = [u \in UploadIds |-> NoOwner]
    /\ final = <<>>
    /\ inodes = <<>>
    /\ req = [r \in Reqs |-> IdleReq]
    /\ sweeper = IdleSweeper
    /\ restarts = 0
    /\ resp = NoResp
    /\ client = [u \in UploadIds |-> StartedUploader]

\* One uploader driven by the recorder: push calls that may overlap, the
\* timers of the polling loops firing in any order, responses that succeed
\* or fail, a token that may be missing, and finalize.
NextUploader ==
    \/ \E tok \in BOOLEAN : UpPush("u1", tok)
    \/ \E k \in 1..MaxPush, tok \in BOOLEAN : UpPoll("u1", k, tok)
    \/ \E k \in 1..MaxPush, ok \in BOOLEAN : UpAnswer("u1", k, ok)
    \/ \E tok \in BOOLEAN : UpFinalize("u1", tok)
    \/ \E tok \in BOOLEAN : UpFlush("u1", tok)
    \/ UpFinished("u1")

SpecUploader == InitUploader /\ [][NextUploader]_vars

\* Two connections, one upload, writes that may fail: the chunk requests of
\* one token in every interleaving, each write callback reporting success
\* or an error of the stream.
NextAppend ==
    \/ \E r \in Reqs, idx \in 0..MaxIdx :
          /\ Ready /\ Conn(r) /\ UNCHANGED client
          /\ ChunkArrive(r, "t1", "u1", idx, 1, 1, {"webm"})
    \/ \E r \in Reqs : Ready /\ ChunkMarkerDone(r)
    \/ \E r \in Reqs, ok \in BOOLEAN : Ready /\ ChunkWriteDone(r, ok)
    \/ Deliver

SpecAppend == Init /\ [][NextAppend]_vars

\* One connection, the clock, the sweeper and a restart: the chunk requests
\* of one token for one upload, which the client may stop sending at any
\* time.
NextReap ==
    \/ \E idx \in 0..MaxIdx :
          /\ Ready /\ Conn(1) /\ UNCHANGED client
          /\ ChunkArrive(1, "t1", "u1", idx, 1, 1, {"webm"})
    \/ Ready /\ ChunkMarkerDone(1)
    \/ Ready /\ ChunkWriteDone(1, TRUE)
    \/ Ready /\ SweepStart
    \/ Ready /\ SweepUnlinkFile
    \/ Ready /\ SweepUnlinkOwner
    \/ Ready /\ SweepReaddir
    \/ Ready /\ SweepStat
    \/ Ready /\ SweepUnlinkOld
    \/ Ready /\ DropSessions
    \/ Ready /\ Tick
    \/ Deliver

\* The event loop runs every callback that is due: the interval timer of the
\* sweeper keeps firing, each awaited filesystem call returns, each response
\* leaves, and the clock advances. Requests and restarts are not forced.
FairReap ==
    /\ WF_vars(Ready /\ ChunkMarkerDone(1))
    /\ WF_vars(Ready /\ ChunkWriteDone(1, TRUE))
    /\ WF_vars(Ready /\ SweepStart)
    /\ WF_vars(Ready /\ SweepUnlinkFile)
    /\ WF_vars(Ready /\ SweepUnlinkOwner)
    /\ WF_vars(Ready /\ SweepReaddir)
    /\ WF_vars(Ready /\ SweepStat)
    /\ WF_vars(Ready /\ SweepUnlinkOld)
    /\ WF_vars(Ready /\ Tick)
    /\ WF_vars(Deliver)

SpecReap == Init /\ [][NextReap]_vars /\ FairReap

(* ------------------------------- claims -------------------------------- *)

\* The session objects that exist as such (the object literal was evaluated
\* and something still holds the object).
Made == {i \in DOMAIN sess : sess[i].made}

\* C1: of two chunk requests in flight for one session that declare the same
\* expected index at most one is accepted: no session answers 200 to two
\* chunks declared with the same index.
C1_RaceLoserRejected ==
    \A i \in DOMAIN sess :
        \A a, b \in DOMAIN sess[i].acked :
            a # b => sess[i].acked[a].idx # sess[i].acked[b].idx

\* C2: at most one session object with its stream exists per uploadId, also
\* when two first chunks are in flight together.
C2_OneSessionPerUpload ==
    \A u \in UploadIds : Cardinality({i \in Made : sess[i].uid = u}) <= 1

\* A chunk request arrives on connection r and is refused in the same step.
Refused(r) == Free(r) /\ req' = req /\ resp'.kind = "chunk"

\* A chunk request of connection r is handed to stream.write in this step.
Written(r) == req[r].pc # "c_write" /\ req'[r].pc = "c_write"

\* The handler of connection r resumes after the marker write.
Resumed(r) == req[r].pc = "c_marker" /\ req'[r].pc \in {"idle", "c_write"}

\* A response to a chunk request whose token and fields are valid.
ValidChunk(q) ==
    /\ q.kind = "chunk"
    /\ Unlocked(q.tok)
    /\ ~BadRequest(q.uid, q.idx, q.size)
    /\ SlotOk(q.slot)

\* C3 as claimed: for an existing session a chunk request is accepted if and
\* only if its declared index equals nextIndex: what is written declared
\* nextIndex, and what is refused declared another index.
C3_AcceptedIffIndexMatches ==
    [][\A r \in Reqs :
          /\ (Written(r) /\ Free(r))
                => req'[r].idx = sess[inFlight[req'[r].uid]].nextIndex
          /\ (Refused(r) /\ ValidChunk(resp') /\ inFlight[resp'.uid] # 0)
                => resp'.idx # sess[inFlight[resp'.uid]].nextIndex
      ]_vars

\* C3 amended: a chunk is handed to the stream only if its declared index
\* equals the session's nextIndex; one that declares nextIndex is refused
\* only for its slot, its token, the size ceiling or a stream that is no
\* longer open; 'out-of-order' is answered only to another index; nextIndex
\* starts at 0 and each step leaves it or adds exactly 1.
C3_IndexGate ==
    [][/\ \A i \in DOMAIN sess' :
            sess'[i].made =>
                IF i \in DOMAIN sess /\ sess[i].made
                THEN sess'[i].nextIndex \in
                        {sess[i].nextIndex, sess[i].nextIndex + 1}
                ELSE sess'[i].nextIndex = 0
       /\ \A r \in Reqs :
            /\ Written(r)
                 => \/ Resumed(r) /\ req'[r].idx = 0
                    \/ Free(r) /\ req'[r].idx
                                    = sess[inFlight[req'[r].uid]].nextIndex
            /\ (Refused(r) /\ ValidChunk(resp') /\ inFlight[resp'.uid] # 0)
                 => LET s == sess[inFlight[resp'.uid]] IN
                    \/ resp'.idx # s.nextIndex
                    \/ resp'.slot # s.slot
                    \/ resp'.tok # s.ownerTok
                    \/ s.bytes + resp'.size > PER_UPLOAD_MAX_BYTES
                    \/ s.st # "open"
       /\ (resp'.err = "out-of-order" /\ inFlight'[resp'.uid] # 0)
            => /\ resp'.idx # sess'[inFlight'[resp'.uid]].nextIndex
               /\ resp'.val = sess'[inFlight'[resp'.uid]].nextIndex
      ]_vars

\* C3's case: a session that accepted two chunks, and an out-of-order answer.
C3_Witness ==
    /\ resp.err = "out-of-order"
    /\ inFlight[resp.uid] # 0
    /\ sess[inFlight[resp.uid]].nextIndex = 2

\* C4 as claimed: a chunk request declaring an index other than nextIndex = j
\* of the existing session is always answered 409 'out-of-order' with
\* expected = j, and nextIndex stays j.
C4_AlwaysOrderingConflict ==
    [][\A r \in Reqs :
          (/\ Refused(r)
           /\ ValidChunk(resp')
           /\ inFlight[resp'.uid] # 0
           /\ resp'.idx # sess[inFlight[resp'.uid]].nextIndex)
          => /\ resp'.status = 409
             /\ resp'.err = "out-of-order"
             /\ resp'.val = sess[inFlight[resp'.uid]].nextIndex
             /\ sess'[inFlight[resp'.uid]].nextIndex
                   = sess[inFlight[resp'.uid]].nextIndex
      ]_vars

\* C4 amended: the same for a request that declares the session's slot, and
\* no request declaring another index than nextIndex is handed to the stream.
C4_OrderingConflictSameSlot ==
    [][\A r \in Reqs :
          /\ (/\ Refused(r)
              /\ ValidChunk(resp')
              /\ inFlight[resp'.uid] # 0
              /\ resp'.slot = sess[inFlight[resp'.uid]].slot
              /\ resp'.idx # sess[inFlight[resp'.uid]].nextIndex)
             => /\ resp'.status = 409
                /\ resp'.err = "out-of-order"
                /\ resp'.val = sess[inFlight[resp'.uid]].nextIndex
                /\ sess'[inFlight[resp'.uid]].nextIndex
                      = sess[inFlight[resp'.uid]].nextIndex
          /\ (Written(r) /\ Free(r))
             => req'[r].idx = sess[inFlight[req'[r].uid]].nextIndex
      ]_vars

\* C4's case: index 0 sent again after it was accepted, answered expected 1.
C4_Witness ==
    /\ resp.kind = "chunk"
    /\ resp.idx = 0
    /\ resp.err = "out-of-order"
    /\ resp.val = 1

\* The sizes of the chunks the uploader pushed for the upload of request q.
SentFor(q) == client[q.uid].sent

C6_NoEmptyArtifact ==
    (resp.kind = "finish" /\ resp.status = 200)
        => inodes[final[resp.name]] # <<>>

\* The session objects a restart dropped for upload u.
Lost(u) == {i \in DOMAIN sess : sess[i].st = "lost" /\ sess[i].uid = u}

\* C7: after a restart, with the staging file and the marker of an upload on
\* disk, a finish of the token in the marker (the original owner) is not
\* refused and only that token's finish renames the file; the recovery path
\* gives the artifact the name (label, slot, extension) and the bytes the
\* dropped session would have given it; a finish of another token is
\* answered 403 and leaves the staging files and the markers alone.
C7_RestartRecovery ==
    [][/\ (/\ resp'.kind = "finish"
           /\ restarts >= 1
           /\ owner[resp'.uid].tok # NoTok
           /\ Probe(resp'.uid) # "")
          => /\ resp'.tok # owner[resp'.uid].tok
             /\ resp'.status = 403
             /\ stage' = stage
             /\ owner' = owner
       /\ \A r \in Reqs :
            /\ (restarts >= 1 /\ req[r].kind = "finish" /\ final' # final)
                  => req[r].tok = owner[req[r].uid].tok
            /\ (req[r].pc = "f_renameFb" /\ req'[r].pc = "f_unlinkFb")
                  => \A i \in Lost(req[r].uid) :
                        /\ req[r].name = FinalName(sess[i].userLabel,
                                                   req[r].slot, sess[i].ext)
                        /\ inodes'[final'[req[r].name]] = inodes[sess[i].ino]
      ]_vars

\* C8: one sweep removes every session idle for longer than INFLIGHT_TTL_MS:
\* when the unlink of its file returns the session is out of the map and the
\* staging file is gone, when the unlink of its marker returns the marker is
\* gone, and when the loop over the map ends no such session is left; a
\* session built afterwards starts at index 0 with bytes 0 and an empty file.
C8_StaleSessionReaped ==
    [][/\ (sweeper.pc = "unlinkFile" /\ sweeper'.pc = "unlinkOwner")
            => /\ inFlight'[sweeper.cur] = 0
               /\ stage'[<<sweeper.cur, sess[sweeper.sid].ext>>] = 0
       /\ (sweeper.pc = "unlinkOwner" /\ sweeper'.pc # "unlinkOwner")
            => owner'[sweeper.cur] = NoOwner
       /\ (sweeper.pc # "readdir" /\ sweeper'.pc = "readdir")
            => \A u \in UploadIds :
                  inFlight'[u] # 0
                     => sweeper'.t0 - sess'[inFlight'[u]].lastTouched
                           <= INFLIGHT_TTL_MS
       /\ \A r \in Reqs :
            (Resumed(r) /\ inFlight'[req[r].uid] = req[r].sid)
               => LET s == sess'[req[r].sid] IN
                  /\ s.nextIndex = 0
                  /\ s.bytes = 0
                  /\ inodes'[s.ino] = <<>>
      ]_vars

\* C8's case: the stale session is out of the map, the sweep waits for the
\* unlink of its marker, and the next chunk request of the upload has built
\* a new session.
C8_Witness ==
    /\ sweeper.pc = "unlinkOwner"
    /\ inFlight[sweeper.cur] # 0
    /\ sess[inFlight[sweeper.cur]].nextIndex = 0

\* C9: the sweeper takes a session out of the map before it ends its stream
\* and unlinks its file: while the sweep waits for the unlink, the session
\* it tears down is not in the map.
C9_UnmappedBeforeTeardown ==
    sweeper.pc = "unlinkFile" => inFlight[sweeper.cur] # sweeper.sid

\* C10: a finish request that meets a sweep of its session is never answered
\* 500 'finalize failed' (no other storage failure occurs here).
C10_FinishSurvivesSweep ==
    resp.kind = "finish" => resp.status # 500

\* A handler step of a request for uploadId a: its arrival, or one of its
\* segments after an await.
ActsFor(a) ==
    \/ \E r \in Reqs : req[r].pc # "idle" /\ req'[r] # req[r] /\ req[r].uid = a
    \/ \E r \in Reqs : Free(r) /\ req'[r].pc # "idle" /\ req'[r].uid = a
    \/ req' = req /\ resp' # NoResp /\ resp'.uid = a

\* The fields of a session record the source names.
Record(s) ==
    [nextIndex |-> s.nextIndex, bytes |-> s.bytes, ownerTok |-> s.ownerTok,
     slot |-> s.slot, lastTouched |-> s.lastTouched]

\* C11: sessions with different uploadIds never interfere: a step of a chunk
\* or finish request for uploadId a, accepted or rejected, leaves the session
\* record, the staging file (its name and its bytes) and the marker of every
\* session of another uploadId b unchanged.
C11_NoInterference ==
    [][\A a, b \in RequestIds :
          (a # b /\ ActsFor(a) /\ inFlight[b] # 0)
            => LET s == sess[inFlight[b]] IN
               /\ inFlight'[b] = inFlight[b]
               /\ Record(sess'[inFlight[b]]) = Record(s)
               /\ stage'[StagePath(b, s.ext)] = stage[StagePath(b, s.ext)]
               /\ inodes'[s.ino] = inodes[s.ino]
               /\ owner'[OwnerTag(b)] = owner[OwnerTag(b)]
      ]_vars

\* C12: in every reachable state the bytes counter of every session is at
\* most PER_UPLOAD_MAX_BYTES, under any interleaving of the chunk requests
\* for the session.
C12_BytesWithinCeiling ==
    \A i \in Made : sess[i].bytes <= PER_UPLOAD_MAX_BYTES

\* C13: immediately after each accepted chunk write the byte length of the
\* session's staging file equals the session's bytes counter, also for a
\* session created while a staging file of its uploadId was on disk from
\* before a restart.
C13_FileLengthEqualsBytes ==
    [][\A r \in Reqs :
          (req[r].pc = "c_write" /\ req'[r].pc = "idle" /\ resp'.status = 200)
            => SumSizes(inodes'[sess[req[r].sid].ino])
                  = sess'[req[r].sid].bytes
      ]_vars

\* C14: a chunk request for an existing session that bears a valid token
\* other than the session's owner token is answered 403 'not owner', never
\* 409 and never 200 (it is not handed to the stream), and leaves the
\* session and the staging file unchanged.
C14_NonOwnerChunkForbidden ==
    [][\A r \in Reqs :
          /\ (/\ Refused(r)
              /\ ValidChunk(resp')
              /\ inFlight[resp'.uid] # 0
              /\ sess[inFlight[resp'.uid]].ownerTok # resp'.tok)
             => /\ resp'.status = 403
                /\ resp'.err = "not owner"
                /\ sess' = sess
                /\ stage' = stage
                /\ inodes' = inodes
          /\ (Written(r) /\ Free(r))
             => req'[r].tok = sess[inFlight[req'[r].uid]].ownerTok
      ]_vars

\* A request arrives on connection r in this step.
Arrives(r) ==
    /\ Free(r)
    /\ \/ req'[r].pc # "idle"
       \/ req' = req /\ resp' # NoResp

\* The request that arrived on connection r: suspended, or answered at once.
Arrived(r) == IF req'[r].pc # "idle" THEN req'[r] ELSE resp'

\* C15: a finish request for a session in the map from a token other than
\* the session's owner token is answered 403, and the map, the session with
\* its stream, the staging file, the marker and the artifacts are as before.
C15_NonOwnerFinishRejected ==
    [][\A r \in Reqs :
          (/\ Arrives(r)
           /\ Arrived(r).kind = "finish"
           /\ Unlocked(Arrived(r).tok)
           /\ SlotOk(Arrived(r).slot)
           /\ inFlight[Arrived(r).uid] # 0
           /\ sess[inFlight[Arrived(r).uid]].ownerTok # Arrived(r).tok)
          => /\ resp'.status = 403
             /\ resp'.err = "not owner"
             /\ inFlight' = inFlight
             /\ sess' = sess
             /\ stage' = stage
             /\ owner' = owner
             /\ inodes' = inodes
             /\ final' = final
      ]_vars

\* C15's case: a finish answered 'not owner' while the session of its
\* upload, owned by the other token, is in the map with an accepted chunk
\* and an open stream.
C15_Witness ==
    /\ resp.kind = "finish"
    /\ resp.status = 403
    /\ inFlight[resp.uid] # 0
    /\ sess[inFlight[resp.uid]].ownerTok # resp.tok
    /\ sess[inFlight[resp.uid]].st = "open"
    /\ sess[inFlight[resp.uid]].nextIndex = 1

\* C16: a finish request whose declared slot differs from the slot of the
\* existing session is rejected on arrival, and no artifact is renamed to a
\* name with another slot number than the session's.
C16_FinishSlotMatches ==
    [][\A r \in Reqs :
          /\ (/\ Arrives(r)
              /\ Arrived(r).kind = "finish"
              /\ inFlight[Arrived(r).uid] # 0
              /\ sess[inFlight[Arrived(r).uid]].slot # Arrived(r).slot)
             => resp'.status >= 400
          /\ (req[r].pc = "f_rename" /\ final' # final)
             => req[r].name.slot = sess[req[r].sid].slot
      ]_vars

\* A token that is in the map and was used within the last TOKEN_TTL_MS.
TokenValid(tok) ==
    /\ tok \in Tokens
    /\ activeTokens[tok] >= 0
    /\ now - activeTokens[tok] <= TOKEN_TTL_MS

\* C17: a chunk or finish request with a missing, unknown or expired token
\* (one not used for longer than TOKEN_TTL_MS) is answered 403 by
\* requireUnlock, and no session, staging file or marker is created or
\* changed by it.
C17_InvalidTokenLocked ==
    [][\A r \in Reqs :
          (Arrives(r) /\ ~TokenValid(Arrived(r).tok))
            => /\ resp'.status = 403
               /\ resp'.err = "Locked"
               /\ inFlight' = inFlight
               /\ sess' = sess
               /\ stage' = stage
               /\ owner' = owner
               /\ inodes' = inodes
      ]_vars

C19_RejectedChunkLeavesStore ==
    [][(resp'.kind = "chunk" /\ resp'.status \in {400, 403, 409, 413})
          => /\ inFlight' = inFlight
             /\ \A u \in RequestIds :
                   inFlight[u] # 0
                     => LET s == sess[inFlight[u]]
                            n == sess'[inFlight[u]]
                        IN  /\ n.nextIndex = s.nextIndex
                            /\ n.bytes = s.bytes
                            /\ n.lastTouched = s.lastTouched
      ]_vars

\* C20: a finish answered 500 'finalize failed' has deleted neither a staging
\* file nor a marker, and a finish of the owner can still succeed afterwards:
\* while the marker with the requester's token and a staging file of the
\* upload are on disk, a finish request is not refused with 500 on arrival,
\* before any storage call was made for it.
C20_FinalizeFailureRetriable ==
    [][/\ (resp'.kind = "finish" /\ resp'.status = 500)
            => /\ stage' = stage
               /\ owner' = owner
       /\ \A r \in Reqs :
            (/\ Arrives(r)
             /\ Arrived(r).kind = "finish"
             /\ owner[OwnerTag(Arrived(r).uid)].tok = Arrived(r).tok
             /\ Probe(Arrived(r).uid) # "")
            => resp'.status # 500
      ]_vars

\* C21: an artifact is created at most once per session: of the finish
\* requests for one session, concurrent ones included, at most one gets
\* through its rename and is answered 200.
C21_OneArtifactPerSession ==
    [][\A r \in Reqs :
          (req[r].pc = "f_rename" /\ req'[r].pc = "f_unlink")
            => sess[req[r].sid].fins = 0
      ]_vars

\* C22: an artifact, once it exists, is never overwritten or removed: every
\* step leaves each artifact name on its file and the file's bytes as they
\* are, also when another session of the same label, slot and extension is
\* finalized within the same second.
C22_ArtifactImmutable ==
    [][\A n \in DOMAIN final :
          /\ n \in DOMAIN final'
          /\ final'[n] = final[n]
          /\ inodes'[final[n]] = inodes[final[n]]
      ]_vars

\* C23: the marker pass of the sweeper deletes only orphaned markers: the
\* step that unlinks an old '.owner' file is never taken for an uploadId
\* whose session is registered in inFlight and was touched within the TTL
\* of the sweep's own clock reading.
C23_LiveMarkerKept ==
    [][(sweeper.pc = "unlinkOld" /\ sweeper'.pc # "unlinkOld")
         => \/ inFlight[sweeper.cur] = 0
            \/ Stale(sess[inFlight[sweeper.cur]], sweeper.t0)
      ]_vars

\* C24: a sweep never ends in a rejected promise: no step of the sweeper
\* callback throws, also when a marker listed by readdir is gone at stat.
C24_SweepNeverThrows == sweeper.threw = FALSE

\* No request arrives in this step.
NoArrival == \A r \in Reqs : ~Arrives(r)

\* A staging file of uploadId u whose session is gone from memory: the file
\* is on disk, no session is registered for u and no handler is in progress.
Orphaned(u) ==
    /\ \E e \in Exts : stage[StagePath(u, e)] # 0
    /\ inFlight[u] = 0
    /\ \A r \in Reqs : Free(r)

\* C25: no abandoned staging file stays on disk forever: if from some point
\* on no request arrives, then a staging file whose session was lost to a
\* restart is eventually deleted by the sweeps that keep firing.
C25_AbandonedFileReaped ==
    (<>[][NoArrival]_vars)
      => \A u \in UploadIds :
           [](Orphaned(u) => <>(\A e \in Exts : stage[StagePath(u, e)] = 0))

\* C26: the marker lives as long as the session: after every step each
\* uploadId with a session in inFlight has a marker on disk that holds the
\* session's owner token, and the step that completes a finalize or a reap
\* of a session leaves no marker for its uploadId.
C26_MarkerMatchesSession ==
    [][/\ \A u \in RequestIds :
            inFlight'[u] # 0
              => owner'[OwnerTag(u)].tok = sess'[inFlight'[u]].ownerTok
       /\ \A r \in Reqs :
            (req[r].pc = "f_unlink" /\ req'[r].pc = "idle"
               /\ resp'.status = 200)
              => owner'[OwnerTag(req[r].uid)].tok = NoTok
       /\ (sweeper.pc = "unlinkOwner" /\ sweeper'.pc # "unlinkOwner")
              => owner'[OwnerTag(sweeper.cur)].tok = NoTok
      ]_vars

\* C27: a finish request that passes the token and field checks for an
\* uploadId without session and without marker is answered 404 on arrival;
\* one without session whose marker, once read, holds the caller's token
\* while no staging file of a known extension exists is answered 404 after
\* the read.  Neither changes the session map, the sessions or the disk.
C27_UnknownUploadNotFound ==
    [][\A r \in Reqs :
          /\ (/\ Arrives(r)
              /\ Arrived(r).kind = "finish"
              /\ Unlocked(Arrived(r).tok)
              /\ Arrived(r).uid # NoUid
              /\ SlotOk(Arrived(r).slot)
              /\ inFlight[Arrived(r).uid] = 0
              /\ owner[OwnerTag(Arrived(r).uid)].tok = NoTok)
             => /\ resp'.status = 404
                /\ UNCHANGED <<inFlight, sess, stage, owner, final, inodes>>
          /\ (/\ req[r].pc = "f_read"
              /\ req'[r].pc # "f_read"
              /\ owner[OwnerTag(req[r].uid)].tok = req[r].tok
              /\ \A e \in Exts : stage[StagePath(req[r].uid, e)] = 0)
             => /\ resp'.status = 404
                /\ UNCHANGED <<inFlight, sess, stage, owner, final, inodes>>
      ]_vars

\* C27, the case reached: a finish request was just answered 404 after the
\* marker of its uploadId was read and held its token, with no session and
\* no staging file for the uploadId.
C27_Witness ==
    /\ resp.kind = "finish"
    /\ resp.status = 404
    /\ inFlight[resp.uid] = 0
    /\ owner[OwnerTag(resp.uid)].tok = resp.tok
    /\ \A e \in Exts : stage[StagePath(resp.uid, e)] = 0

\* C28: token expiry is sliding: a request whose token is in the map leaves
\* the token's issuedAt at the current time, and a step that deletes a token
\* from the map finds its issuedAt, the time of its last successful check,
\* at least TOKEN_TTL_MS in the past.
C28_SlidingExpiry ==
    [][/\ \A r \in Reqs :
            (Arrives(r) /\ Unlocked(Arrived(r).tok))
              => activeTokens'[Arrived(r).tok] = now
       /\ \A t \in Tokens :
            (activeTokens[t] >= 0 /\ activeTokens'[t] < 0)
              => now - activeTokens[t] >= TOKEN_TTL_MS
      ]_vars

\* C28, the case reached: token t1 was just checked at a time past
\* TOKEN_TTL_MS after it was issued and is still in the map, while token t2,
\* never used, has been deleted by the sweep.
C28_Witness ==
    /\ now > TOKEN_TTL_MS
    /\ activeTokens["t1"] = now
    /\ activeTokens["t2"] < 0

\* C29: after every step the nextIndex of each session equals the number of
\* its chunk requests that were answered 200, and every 200 response to a
\* chunk request carries the index of the chunk it accepted plus 1.
C29_NextIndexCountsAccepted ==
    [][/\ \A i \in DOMAIN sess' :
            sess'[i].st # "gone" => sess'[i].nextIndex = Len(sess'[i].acked)
       /\ (resp' # NoResp /\ resp'.kind = "chunk" /\ resp'.status = 200)
            => resp'.val = resp'.idx + 1
      ]_vars

\* C30: a chunk request whose write fails is answered 500 and leaves the
\* session of its uploadId registered with nextIndex and bytes as they were,
\* so that the index of the failed chunk is still the one the index check
\* accepts.
C30_FailedAppendRetriable ==
    [][\A r \in Reqs :
          (req[r].pc = "c_write" /\ req'[r].pc = "idle"
             /\ resp'.status # 200)
            => LET u == req[r].uid IN
               /\ resp'.status = 500
               /\ inFlight[u] # 0
               /\ inFlight'[u] = inFlight[u]
               /\ sess'[inFlight[u]].nextIndex = sess[inFlight[u]].nextIndex
               /\ sess'[inFlight[u]].bytes = sess[inFlight[u]].bytes
               /\ IndexMatches(req[r].idx, sess'[inFlight[u]])
      ]_vars

\* C31: the sweeper removes from inFlight only a session whose lastTouched
\* lies more than INFLIGHT_TTL_MS before the start of the sweep; lastTouched
\* is the time of the session's creation or of its last accepted chunk, and
\* no other step changes it.
C31_OnlyIdleSessionsReaped ==
    [][/\ (sweeper.pc = "unlinkFile" /\ sweeper'.pc # "unlinkFile"
             /\ inFlight[sweeper.cur] # 0)
            => Stale(sess[inFlight[sweeper.cur]], sweeper.t0)
       /\ \A i \in DOMAIN sess :
            (sess[i].made /\ sess'[i].made
               /\ sess'[i].lastTouched # sess[i].lastTouched)
              => /\ resp'.kind = "chunk"
                 /\ resp'.status = 200
                 /\ sess'[i].lastTouched = now
       /\ \A i \in DOMAIN sess' :
            (sess'[i].made /\ (i \notin DOMAIN sess \/ ~sess[i].made))
              => sess'[i].lastTouched = now
      ]_vars

\* C32: only the token in an uploadId's marker appends to its staging file:
\* after every step a registered session whose uploadId has a marker has
\* the marker's token as ownerTok, and every chunk a step appends to a
\* staging file with a marker was sent with the marker's token.
C32_OnlyMarkerOwnerAppends ==
    [][/\ \A u \in RequestIds :
            (inFlight'[u] # 0 /\ owner'[OwnerTag(u)].tok # NoTok)
              => sess'[inFlight'[u]].ownerTok = owner'[OwnerTag(u)].tok
       /\ \A p \in DOMAIN stage :
            (/\ stage[p] # 0
             /\ owner[p[1]].tok # NoTok
             /\ Len(inodes'[stage[p]]) > Len(inodes[stage[p]]))
              => inodes'[stage[p]][Len(inodes'[stage[p]])].tok
                   = owner[p[1]].tok
      ]_vars

\* C33: the bytes of a finalized artifact are the accepted chunks in index
\* order, each once: the step that renames a session's staging file leaves
\* an artifact whose chunks carry the indices 0, 1, 2, ... in this order and
\* that holds every chunk the session answered 200.
C33_ArtifactIsChunksInOrder ==
    [][\A r \in Reqs :
          (req[r].pc = "f_rename" /\ req'[r].pc = "f_unlink")
            => LET art == inodes'[final'[req[r].name]]
                   acc == sess[req[r].sid].acked
               IN  /\ \A k \in DOMAIN art : art[k].idx = k - 1
                   /\ \A j \in DOMAIN acc : \E k \in DOMAIN art :
                        art[k] = acc[j]
      ]_vars

\* The uploader the recorder drives.
Up == client["u1"]

\* The calls of the uploader that were given an index.
Indexed == {k \in DOMAIN Up.calls : Up.calls[k].idx >= 0}

\* C34: the uploader preserves the order of the chunks: of two push calls
\* that both got an index, the one called first has the smaller index and
\* its request is handed to fetch first, also when both were in the
\* backpressure loop together.
C34_PushOrderKept ==
    /\ \A a, b \in Indexed :
          a < b => Up.calls[a].idx < Up.calls[b].idx
    /\ \A i, j \in DOMAIN Up.wire :
          (Up.wire[i].call # 0 /\ Up.wire[j].call # 0
             /\ Up.wire[i].call < Up.wire[j].call) => i < j

\* C35: finalize sends the finish request after every chunk pushed before
\* it: no chunk request is handed to fetch after the finish request, and
\* when the finish request is on the wire every push call has been sent and
\* answered, or has failed.
C35_FinishAfterAllChunks ==
    /\ \A i, j \in DOMAIN Up.wire :
          (Up.wire[i].call = 0 /\ i < j) => Up.wire[j].call = 0
    /\ (\E i \in DOMAIN Up.wire : Up.wire[i].call = 0)
          => \A k \in DOMAIN Up.calls : Up.calls[k].pc \in {"done", "failed"}

\* C36: the chunk requests in flight never exceed maxPending and never go
\* below 0, and the indices handed to sendChunk are 0, 1, 2, ... without a
\* gap and each to one call only, also when a sendChunk fails.
C36_PendingBoundedIndicesDense ==
    /\ Up.pending >= 0
    /\ Up.pending <= maxPending
    /\ Up.pending = Cardinality({k \in DOMAIN Up.calls :
                                   Up.calls[k].pc = "send"})
    /\ Up.nextIndex = Cardinality(Indexed)
    /\ {Up.calls[k].idx : k \in Indexed} = 0..(Cardinality(Indexed) - 1)
    /\ \A a, b \in Indexed : a # b => Up.calls[a].idx # Up.calls[b].idx

\* C36, the case reached: a call whose sendChunk failed, a later index
\* handed to another call and its request in flight, while a third call
\* waits in the backpressure loop.
C36_Witness ==
    \E a, b, c \in DOMAIN Up.calls :
        /\ Up.calls[a].pc = "failed"
        /\ Up.calls[b].pc = "send"
        /\ Up.calls[b].idx = Up.calls[a].idx + 1
        /\ Up.calls[c].pc = "poll"
        /\ Up.pending = maxPending

\* The probe over the three extensions finds a staging file for every
\* session, registered or dropped by a restart, whose file is on disk.
ProbeCovers ==
    \A i \in DOMAIN sess :
        (/\ sess[i].st # "gone"
         /\ sess[i].ext \in Exts
         /\ stage[StagePath(sess[i].uid, sess[i].ext)] # 0)
          => Probe(sess[i].uid) \in Exts

\* C37: safeExt maps every declared type to one of the three extensions,
\* '.webm' for webm, else '.mp4' for mp4, else '.mov' for quicktime, else
\* '.webm'; a session gets the extension of the type its creating request
\* declares and keeps it through every later step; and the probe of the
\* recovery path finds a staging file wherever a session's file is on disk.
C37_ExtensionFixedAndProbed ==
    [][LET ClaimedExt(mime) ==
               IF mime = NoMime THEN ".webm"
               ELSE IF "webm" \in mime THEN ".webm"
               ELSE IF "mp4" \in mime THEN ".mp4"
               ELSE IF "quicktime" \in mime THEN ".mov"
               ELSE ".webm"
       IN
       /\ \A m \in Mimes : safeExt(m) \in Exts /\ safeExt(m) = ClaimedExt(m)
       /\ \A r \in Reqs :
            (Free(r) /\ req'[r].pc = "c_marker")
              => \A m \in Mimes :
                    ChunkArrive(r, "t1", "u1", req'[r].idx, 1, 1, m)
                      => sess'[req'[r].sid].ext = ClaimedExt(m)
       /\ \A i \in DOMAIN sess :
            (sess[i].st # "gone" /\ sess'[i].st # "gone")
              => sess'[i].ext = sess[i].ext
       /\ ProbeCovers'
      ]_vars

\* C37, the case reached: after a restart the recovery path has finalized,
\* under the extension '.mov', the staging file of a session created by a
\* request that declared a quicktime type.
C37_Witness ==
    /\ restarts > 0
    /\ resp.kind = "finish"
    /\ resp.status = 200
    /\ resp.name.ext = ".mov"
    /\ inFlight[resp.uid] = 0

====
